---- MODULE Spec2Model ----
(***************************************************************************)
(* D2L-Macro: batch editing of start/due dates on the D2L "Manage Dates"  *)
(* listing.  Two programs are modelled:                                    *)
(*   - the Selenium processor (d2l_date_processing.py) run by the CLI      *)
(*     wrapper d2l_process_csv_cli.py: main, process_csv_file and the      *)
(*     field editor session;                                               *)
(*   - the Playwright processor (d2l_playwright_processor.py):             *)
(*     process_course and perform_date_updates.                            *)
(* What the browser and the page answer (link found, dialog shown, frames, *)
(* toggle state, Save button) is chosen nondeterministically.              *)
(*                                                                         *)
(* Text is modelled as a sequence of one-character strings, so strip(),    *)
(* upper(), replace() and split() are computed character by character.     *)
(***************************************************************************)
EXTENDS Integers, Sequences, FiniteSets, TLC

(***************************************************************************)
(* Bounds of the model.                                                    *)
(***************************************************************************)
MaxRows == 2      \* data rows in the input file
MaxFrames == 2    \* iframes inside one editor dialog
MaxBatch == 4     \* data rows of a file whose contents are given in advance
MaxLinks == 2     \* rows of the listing a name is resolved against
MaxLabelLen == 5  \* characters of a text that is normalised
MaxHour == 23     \* largest hour written in a time cell

(***************************************************************************)
(* Text helpers (Python str methods used by the code).                     *)
(***************************************************************************)
\* Python None where a text is expected: no text has a multi-character element
NoneVal == <<"None">>

IsSpace(c) == c = " "

RECURSIVE lstrip(_)
lstrip(s) == IF s # <<>> /\ IsSpace(Head(s)) THEN lstrip(Tail(s)) ELSE s

RECURSIVE rstrip(_)
rstrip(s) ==
    IF s # <<>> /\ IsSpace(s[Len(s)]) THEN rstrip(SubSeq(s, 1, Len(s) - 1)) ELSE s

\* str.strip()
strip(s) == rstrip(lstrip(s))

LowerLetters == <<"a", "b", "c", "d", "e", "f", "g", "h", "i", "j", "k", "l", "m",
                  "n", "o", "p", "q", "r", "s", "t", "u", "v", "w", "x", "y", "z">>
UpperLetters == <<"A", "B", "C", "D", "E", "F", "G", "H", "I", "J", "K", "L", "M",
                  "N", "O", "P", "Q", "R", "S", "T", "U", "V", "W", "X", "Y", "Z">>

UpperChar(c) ==
    IF \E i \in 1..26 : LowerLetters[i] = c
    THEN UpperLetters[CHOOSE i \in 1..26 : LowerLetters[i] = c]
    ELSE c

\* str.upper()
upper(s) == [i \in 1..Len(s) |-> UpperChar(s[i])]

StartsWith(s, sub) == Len(s) >= Len(sub) /\ SubSeq(s, 1, Len(sub)) = sub

\* sub in s
Contains(s, sub) ==
    \E i \in 1..(Len(s) - Len(sub) + 1) : SubSeq(s, i, i + Len(sub) - 1) = sub

\* str.replace(sub, '') for a non-empty sub
RECURSIVE remove(_, _)
remove(s, sub) ==
    IF s = <<>> THEN <<>>
    ELSE IF StartsWith(s, sub) THEN remove(SubSeq(s, Len(sub) + 1, Len(s)), sub)
    ELSE <<Head(s)>> \o remove(Tail(s), sub)

\* str.split(c) for a one-character separator
RECURSIVE split(_, _)
split(s, c) ==
    IF \A i \in 1..Len(s) : s[i] # c THEN <<s>>
    ELSE LET k == CHOOSE i \in 1..Len(s) : s[i] = c /\ \A j \in 1..(i - 1) : s[j] # c
         IN  <<SubSeq(s, 1, k - 1)>> \o split(SubSeq(s, k + 1, Len(s)), c)

Digits == {"0", "1", "2", "3", "4", "5", "6", "7", "8", "9"}

DigitVal(c) ==
    CASE c = "0" -> 0 [] c = "1" -> 1 [] c = "2" -> 2 [] c = "3" -> 3 [] c = "4" -> 4
      [] c = "5" -> 5 [] c = "6" -> 6 [] c = "7" -> 7 [] c = "8" -> 8 [] OTHER -> 9

\* int(s) succeeds: optional surrounding blanks around a non-empty digit run
IsIntLiteral(s) ==
    LET t == strip(s) IN t # <<>> /\ \A i \in 1..Len(t) : t[i] \in Digits

RECURSIVE DigitsToInt(_)
DigitsToInt(t) ==
    IF t = <<>> THEN 0
    ELSE DigitsToInt(SubSeq(t, 1, Len(t) - 1)) * 10 + DigitVal(t[Len(t)])

\* int(s)
int(s) == DigitsToInt(strip(s))

LowerChar(c) ==
    IF \E i \in 1..26 : UpperLetters[i] = c
    THEN LowerLetters[CHOOSE i \in 1..26 : UpperLetters[i] = c]
    ELSE c

\* str.lower()
lower(s) == [i \in 1..Len(s) |-> LowerChar(s[i])]

\* characters outside ASCII are written by name
DashChars == {"-", "endash", "emdash", "minus"}

\* characters of the ranges of _remove_emojis: a star (U+2605)
EmojiChars == {"star"}

\* only the ASCII hyphen becomes a space
sub_dashes_m(s) == [i \in 1..Len(s) |-> IF s[i] = "-" THEN " " ELSE s[i]]

\* re.sub(r'[-...]', ' ', s) over hyphen, en dash, em dash and minus sign
sub_dashes(s) == [i \in 1..Len(s) |-> IF s[i] \in DashChars THEN " " ELSE s[i]]

\* re.sub(r',\s*', ', ', s)
RECURSIVE sub_commas(_)
sub_commas(s) ==
    IF s = <<>> THEN <<>>
    ELSE IF Head(s) = "," THEN <<",", " ">> \o sub_commas(lstrip(Tail(s)))
    ELSE <<Head(s)>> \o sub_commas(Tail(s))

\* re.sub(r'\s+', ' ', s)
RECURSIVE sub_spaces(_)
sub_spaces(s) ==
    IF s = <<>> THEN <<>>
    ELSE IF IsSpace(Head(s)) THEN <<" ">> \o sub_spaces(lstrip(Tail(s)))
    ELSE <<Head(s)>> \o sub_spaces(Tail(s))

\* _remove_emojis: emoji_pattern.sub('', text).strip()
remove_emojis(text) == strip(SelectSeq(text, LAMBDA c : c \notin EmojiChars))

\* str.replace(c, '') for one character
remove_char(s, c) == SelectSeq(s, LAMBDA x : x # c)

(***************************************************************************)
(* The input file: header row and cell values.                             *)
(***************************************************************************)
required_headers == <<"Name", "Start Date", "Start Time", "Due Date", "Due Time">>

Range(f) == {f[i] : i \in DOMAIN f}

NameLastHeader == <<"Due Date", "Due Time", "Start Date", "Start Time", "Name">>

Without(h, c) == SelectSeq(h, LAMBDA x : x # c)

\* header rows of the files considered: complete (two column orders), one
\* required column missing, and the empty file, whose DictReader.fieldnames
\* is None (written <<>>: a header row that exists has at least one column)
HeaderChoices ==
    {required_headers, NameLastHeader, <<>>}
        \cup {Without(required_headers, c) : c \in Range(required_headers)}

NameCells == { <<>>, <<" ">>, <<"H", "W">>, <<"\"", "\"">> }
DateCells == { <<>>, <<"1", "/", "2", "/", "3">>, <<"1", "/", "2">> }
TimeCells == { <<>>, <<"2", ":", "3", "0", " ", "p", "m">>, <<"x", " ", "P", "M">> }

\* the cells of a full-length data row, by column
FullRows ==
    { [c \in Range(required_headers) |->
          CASE c = "Name" -> n
            [] c = "Start Date" -> sd
            [] c = "Start Time" -> st
            [] c = "Due Date" -> dd
            [] OTHER -> dt] :
      n \in NameCells, sd \in DateCells, st \in TimeCells,
      dd \in DateCells, dt \in TimeCells }

ColumnIndex(h, c) == CHOOSE i \in 1..Len(h) : h[i] = c

\* csv.DictReader: the row dict has one key per header column; a data row
\* with only n cells leaves the trailing columns at restval (None)
RowsOf(h) ==
    { [c \in Range(h) |-> IF ColumnIndex(h, c) <= n THEN full[c] ELSE NoneVal] :
      full \in FullRows, n \in 1..Len(h) }

\* the row dicts the reader can yield for data row n of file f
NextRows(f, n) ==
    IF n <= Len(f.content)
    THEN { [c \in Range(f.fieldnames) |-> f.content[n][c]] }
    ELSE RowsOf(f.fieldnames)

\* row[c]: a missing key raises KeyError
HasKey(r, c) == c \in DOMAIN r

(***************************************************************************)
(* Date and time parsing of set_date_in_iframe.                            *)
(***************************************************************************)
\* strings accepted by datetime.strptime(s, '%B %d, %Y') among the inputs
LongFormDates ==
    { <<"M", "a", "y", " ", "1", ",", " ", "2", "0", "2", "5">> }

\* the date parses: 'M/D/Y' unpacks into exactly three parts, anything
\* without a slash goes through strptime
DateParses(new_date) ==
    IF Contains(new_date, <<"/">>)
    THEN Len(split(new_date, "/")) = 3
    ELSE new_date \in LongFormDates

\* hour/minute unpacking of "H:MM" or "H"
TimeParts(time_part) ==
    IF Contains(time_part, <<":">>) THEN split(time_part, ":")
    ELSE <<time_part, <<"0">>>>

\* the time parses: two parts, and int(hour) succeeds where it is evaluated
TimeParses(new_time) ==
    LET up == upper(new_time) IN
    IF Contains(up, <<"P", "M">>)
    THEN LET parts == TimeParts(strip(remove(up, <<"P", "M">>)))
         IN  Len(parts) = 2 /\ IsIntLiteral(parts[1])
    ELSE IF Contains(up, <<"A", "M">>)
    THEN LET parts == TimeParts(strip(remove(up, <<"A", "M">>)))
         IN  Len(parts) = 2 /\ IsIntLiteral(parts[1])
    ELSE Len(TimeParts(new_time)) = 2

(***************************************************************************)
(* The editor dialog as the driver sees it.                                *)
(***************************************************************************)
\* an iframe of the dialog, by the date/time inputs it holds
FrameKinds ==
    { {}, {"year"}, {"year", "month", "day"},
      {"year", "month", "day", "hour", "minute"} }

FrameSeqs == UNION { [1..n -> FrameKinds] : n \in 0..MaxFrames }

\* querySelectorAll('input[name*="year"], input[name*="month"],
\* input[name*="day"]').length > 0
has_date_fields(f) == f \cap {"year", "month", "day"} # {}

\* index of the frame the for/else loop breaks on, 0 when it runs to the end
FirstDateFrame(iframes) ==
    IF \E i \in 1..Len(iframes) : has_date_fields(iframes[i])
    THEN CHOOSE i \in 1..Len(iframes) :
            has_date_fields(iframes[i])
            /\ \A j \in 1..(i - 1) : ~has_date_fields(iframes[j])
    ELSE 0

AllFalse ==
    [dateFound |-> FALSE, dateSet |-> FALSE, timeFound |-> FALSE,
     timeSet |-> FALSE, saveClicked |-> FALSE]

NoCheckbox == [found |-> FALSE, wasUnchecked |-> FALSE, nowChecked |-> FALSE]

\* no has-date toggle was looked up
NoToggle == [id |-> "none", before |-> FALSE, after |-> FALSE, acted |-> {}]

(***************************************************************************)
(* State.                                                                  *)
(***************************************************************************)
VARIABLES
    pc,               \* position of the program
    exit_code,        \* process exit code of the CLI, -1 while running
    fatal,            \* why the run ended without completing the batch
    csvfile,          \* the input file: exists, fieldnames, nRows, readFailAt,
                      \* content (the data rows given in advance, if any)
    rowNum,           \* data rows fetched from the reader so far
    row,              \* the row dict of the current record
    processed_count,
    error_count,
    due_success,
    start_success,
    ret,              \* value returned by process_csv_file, <<>> before
    all_edits_ok,     \* no set_assignment_*_date call has returned False so far
    kind,             \* field edit in progress: "none", "Due" or "Start"
    ctx,              \* document the driver is switched to: "top" or "frame"
    frame,            \* inputs of the iframe the editor switched into
    checkbox_result,
    result,           \* result dict of the edit session
    editRet,          \* value returned by set_assignment_*_date
    clicks,           \* outcomes of the attempts to click the date link, in order
    dialog_open,      \* an editor dialog is shown on the page
    toggles,          \* the has-date toggle the edit looked up: its id, its
                      \* state before and after, and the ids acted on
    dueOut,           \* what happened to the due field of the current record
    startOut,         \* what happened to its start field
    rowOut,           \* how the current record ended
    p0,               \* processed_count when the current record was fetched
    e0,               \* error_count when the current record was fetched
    nAssignments,     \* rows of the CSV handed to the Playwright processor
    assignments_processed,
    idx,              \* rows perform_date_updates has taken from assignments
    assignment_info,  \* the dict of its current row
    pw_row,           \* row handle returned by find_assignment_row
    pw_resolved,      \* find_assignment_row was called for the current row
    pw_due,           \* what happened to the due date of the current row
    pw_start,         \* what happened to its start date
    pw_edit,          \* what the last dialog session did
    target,           \* assignment_name given to set_assignment_*_date and by
                      \* it to find_assignment_*_date_link
    listing,          \* rows of the Manage Dates listing, in document order
    resolution,       \* what the last find_assignment_*_date_link call did
    key,              \* what the normalisation last returned
    time_cell,        \* a time as the CSV gives it
    time_out,         \* hour and minute the last time parser made of it
    cancel_requested, \* the operator asked for the run to stop
    invocation,       \* action and course_code run_automation was called with
    success           \* what run_automation returned

vars ==
    <<pc, exit_code, fatal, csvfile, rowNum, row, processed_count, error_count,
      due_success, start_success, ret, all_edits_ok, kind, ctx, frame,
      checkbox_result, result, editRet, clicks, dialog_open, toggles, dueOut,
      startOut, rowOut, p0,
      e0, nAssignments, assignments_processed, idx, assignment_info, pw_row,
      pw_resolved, pw_due, pw_start, pw_edit, target, listing, resolution,
      key, time_cell, time_out, cancel_requested, invocation, success>>

cliVars == <<exit_code, fatal, cancel_requested>>
coordVars ==
    <<processed_count, error_count, due_success, start_success, ret, all_edits_ok>>
rowVars == <<rowNum, row, p0, e0>>
obsVars == <<dueOut, startOut, rowOut>>
sessionVars ==
    <<kind, ctx, frame, checkbox_result, result, editRet, clicks, dialog_open,
      toggles>>
pwVars ==
    <<nAssignments, assignments_processed, idx, assignment_info, pw_row,
      pw_resolved, pw_due, pw_start, pw_edit>>
resolverVars == <<target, listing, resolution, key>>
\* what a run of the Selenium batch leaves alone
parseVars == <<time_cell, time_out>>
runVars == <<invocation, success>>
offVars == <<pwVars, resolverVars, parseVars, runVars>>
seleniumVars ==
    <<cliVars, csvfile, coordVars, rowVars, obsVars, sessionVars, resolverVars,
      parseVars, runVars>>

\* a dialog session of the Playwright processor that did nothing yet
NoEdit ==
    [kind |-> "none", raised |-> FALSE, frame |-> {}, checked |-> FALSE,
     toggle |-> NoToggle,
     dateFilled |-> FALSE, timeFilled |-> FALSE, saveClicked |-> FALSE]

\* run_automation was not called: the Selenium program runs
NoInvocation == [action |-> "none", course_code |-> "None"]

\* run_automation("process", <a course>, <a csv path>)
ProcessCourse == [action |-> "process", course_code |-> "CA4105"]

\* no time was parsed yet
NoTime ==
    [fn |-> "none", raised |-> FALSE, hour |-> NoneVal, minute |-> NoneVal,
     filled |-> FALSE]

\* no find_assignment_*_date_link call was made yet
NoResult ==
    [fn |-> "none", raised |-> FALSE, stage |-> "none", candidates |-> <<>>,
     row |-> 0, available |-> <<>>, via |-> "none", link |-> 0]

\* the path given does not name a file
NoFile ==
    [exists |-> FALSE, fieldnames |-> <<>>, nRows |-> 0, readFailAt |-> 0,
     content |-> <<>>]

\* files whose data rows are left open until the reader yields them
CsvFiles ==
    { NoFile }
    \cup { [exists |-> TRUE, fieldnames |-> h, nRows |-> n, readFailAt |-> k,
            content |-> <<>>] :
           h \in HeaderChoices, n \in 0..MaxRows, k \in 0..MaxRows }

\* the state of a freshly constructed processor, before anything ran
Constructed ==
    /\ exit_code = -1
    /\ fatal = "none"
    /\ rowNum = 0
    /\ row = <<>>
    /\ processed_count = 0
    /\ error_count = 0
    /\ due_success = FALSE
    /\ start_success = FALSE
    /\ ret = <<>>
    /\ all_edits_ok = TRUE
    /\ kind = "none"
    /\ ctx = "top"
    /\ frame = {}
    /\ checkbox_result = NoCheckbox
    /\ result = AllFalse
    /\ editRet = FALSE
    /\ clicks = <<>>
    /\ dialog_open = FALSE
    /\ toggles = NoToggle
    /\ dueOut = "none"
    /\ startOut = "none"
    /\ rowOut = "none"
    /\ p0 = 0
    /\ e0 = 0
    /\ assignments_processed = 0
    /\ idx = 0
    /\ assignment_info = <<>>
    /\ pw_row = "None"
    /\ pw_resolved = FALSE
    /\ pw_due = "none"
    /\ pw_start = "none"
    /\ pw_edit = NoEdit
    /\ resolution = NoResult
    /\ key = <<>>
    /\ time_out = NoTime
    /\ cancel_requested = FALSE
    /\ success = FALSE

\* either program is started: the Selenium CLI on a CSV file, or the
\* Playwright processor with action "process"
Init ==
    /\ \/ /\ pc = "main"
          /\ csvfile \in { f \in CsvFiles : f.readFailAt <= f.nRows }
          /\ nAssignments = 0
          /\ invocation = NoInvocation
       \/ /\ pc = "process_course"
          /\ csvfile = NoFile
          /\ nAssignments \in 0..MaxRows
          /\ invocation = ProcessCourse
    /\ target = <<>>
    /\ listing = <<>>
    /\ time_cell = <<>>
    /\ Constructed

(***************************************************************************)
(* d2l_process_csv_cli.main                                                *)
(***************************************************************************)
\* sys.exit(1) of main
Exit1(why) ==
    /\ exit_code' = 1
    /\ fatal' = why
    /\ pc' = "exited"
    /\ UNCHANGED <<offVars, csvfile, coordVars, rowVars, obsVars, sessionVars,
                   cancel_requested>>

\* fewer than two arguments: usage error
main_usage ==
    /\ pc = "main"
    /\ Exit1("usage")

\* setup_driver returned False: no document handle
main_setup_failed ==
    /\ pc = "main"
    /\ Exit1("driver")

\* driver.get(class_url) raised
main_navigation_failed ==
    /\ pc = "main"
    /\ Exit1("navigate")

\* driver set up and listing opened: process_csv_file is called
main_process ==
    /\ pc = "main"
    /\ pc' = "open"
    /\ UNCHANGED <<cliVars, offVars, csvfile, coordVars, rowVars, obsVars, sessionVars>>

\* process_csv_file returned: the result is printed and main falls off its end
main_result ==
    /\ pc = "returned"
    /\ exit_code' = 0
    /\ pc' = "exited"
    /\ UNCHANGED <<offVars, fatal, csvfile, coordVars, rowVars, obsVars, sessionVars,
                   cancel_requested>>

(***************************************************************************)
(* D2LDateProcessor.process_csv_file                                       *)
(***************************************************************************)
\* any() where all() is meant
HeadersValid_m(fieldnames) ==
    \E header \in Range(required_headers) : header \in Range(fieldnames)

\* all(header in reader.fieldnames for header in required_headers)
HeadersValid(fieldnames) ==
    \A header \in Range(required_headers) : header \in Range(fieldnames)

\* the outer except: the error is logged and (0, 1) returned
ReturnOnError(why) ==
    /\ ret' = <<0, 1>>
    /\ fatal' = why
    /\ pc' = "returned"
    /\ UNCHANGED <<offVars, exit_code, csvfile, processed_count, error_count,
                   due_success, start_success, all_edits_ok, rowVars, obsVars,
                   sessionVars, cancel_requested>>

\* open() fails, fieldnames is None, or a required header is missing
process_csv_file_fatal ==
    /\ pc = "open"
    /\ IF ~csvfile.exists THEN ReturnOnError("nofile")
       ELSE IF csvfile.fieldnames = <<>> THEN ReturnOnError("noheader")
       ELSE /\ ~HeadersValid(csvfile.fieldnames)
            /\ ReturnOnError("badheader")

\* headers accepted: the counters are initialised and the loop is entered
process_csv_file_begin ==
    /\ pc = "open"
    /\ csvfile.exists
    /\ csvfile.fieldnames # <<>>
    /\ HeadersValid(csvfile.fieldnames)
    /\ processed_count' = 0
    /\ error_count' = 0
    /\ pc' = "loop"
    /\ UNCHANGED <<cliVars, offVars, csvfile, due_success, start_success, ret,
                   all_edits_ok, rowVars, obsVars, sessionVars>>

\* the reader yields the next data row
loop_next ==
    /\ pc = "loop"
    /\ rowNum < csvfile.nRows
    /\ csvfile.readFailAt # rowNum + 1
    /\ \E r \in NextRows(csvfile, rowNum + 1) : row' = r
    /\ rowNum' = rowNum + 1
    /\ p0' = processed_count
    /\ e0' = error_count
    /\ dueOut' = "none"
    /\ startOut' = "none"
    /\ rowOut' = "none"
    /\ pc' = "row"
    /\ UNCHANGED <<cliVars, offVars, csvfile, coordVars, sessionVars>>

\* the reader raises while fetching the next row: outside the per-record try
loop_read_error ==
    /\ pc = "loop"
    /\ rowNum < csvfile.nRows
    /\ csvfile.readFailAt = rowNum + 1
    /\ ReturnOnError("read")

\* the reader is exhausted: return processed_count, error_count
loop_end ==
    /\ pc = "loop"
    /\ rowNum = csvfile.nRows
    /\ ret' = <<processed_count, error_count>>
    /\ pc' = "returned"
    /\ UNCHANGED <<cliVars, offVars, csvfile, processed_count, error_count, due_success,
                   start_success, all_edits_ok, rowVars, obsVars, sessionVars>>

\* row[c].strip() raises: the key is missing or the cell is None
StripRaises(r, c) == ~HasKey(r, c) \/ r[c] = NoneVal

\* len(value) of the debug loop raises: some cell of the row is None
DebugLoopRaises(r) == \E c \in DOMAIN r : r[c] = NoneVal

\* the exception leaves the loop instead of being handled per record
RecordException_m ==
    /\ error_count' = error_count + 1
    /\ rowOut' = "exception"
    /\ pc' = "returned"

\* except at the record boundary: error_count += 1; continue
RecordException ==
    /\ error_count' = error_count + 1
    /\ rowOut' = "exception"
    /\ pc' = "loop"

\* one filled cell of the pair is enough
Populated_m(r, d, t) == strip(r[d]) # <<>> \/ strip(r[t]) # <<>>

\* due_date and due_time / start_date and start_time
Populated(r, d, t) == strip(r[d]) # <<>> /\ strip(r[t]) # <<>>

\* the name taken without strip()
assignment_name_m(r) == r["Name"]

\* assignment_name = row['Name'].strip()
assignment_name(r) == strip(r["Name"])

\* str.strip(c) for one character c
RECURSIVE strip_char(_, _)
strip_char(s, c) ==
    IF s # <<>> /\ Head(s) = c THEN strip_char(Tail(s), c)
    ELSE IF s # <<>> /\ s[Len(s)] = c THEN strip_char(SubSeq(s, 1, Len(s) - 1), c)
    ELSE s

\* clean_assignment_name = assignment_name.strip('"').strip("'").strip()
clean_assignment_name(r) ==
    strip(strip_char(strip_char(assignment_name(r), "\""), "'"))

\* the field blocks in the other order
FirstFieldBlock_m == "start"

\* "Process due date FIRST": the due block is the first field block of a record
FirstFieldBlock == "due"

\* from the name check to the debug output of the row
row_begin ==
    /\ pc = "row"
    /\ IF StripRaises(row, "Name")
       THEN /\ RecordException
            /\ UNCHANGED <<due_success, start_success>>
       ELSE IF assignment_name(row) = <<>>
       THEN /\ rowOut' = "skipped"
            /\ pc' = "loop"
            /\ UNCHANGED <<error_count, due_success, start_success>>
       ELSE /\ start_success' = FALSE
            /\ due_success' = FALSE
            /\ IF \/ StripRaises(row, "Due Date")
                  \/ StripRaises(row, "Due Time")
                  \/ DebugLoopRaises(row)
               THEN RecordException
               ELSE /\ pc' = FirstFieldBlock
                    /\ UNCHANGED <<error_count, rowOut>>
    /\ UNCHANGED <<cliVars, offVars, csvfile, processed_count, ret, all_edits_ok,
                   rowVars, dueOut, startOut, sessionVars>>

\* if due_date and due_time: set_assignment_due_date is called
due_begin ==
    /\ pc = "due"
    /\ Populated(row, "Due Date", "Due Time")
    /\ kind' = "Due"
    /\ target' = clean_assignment_name(row)
    /\ pc' = "find"
    /\ UNCHANGED <<cliVars, pwVars, listing, resolution, key, parseVars, runVars,
                   csvfile, coordVars, rowVars, obsVars, ctx, frame,
                   checkbox_result, result, editRet, clicks, dialog_open,
                   toggles>>

\* else: the due field is skipped
due_skip ==
    /\ pc = "due"
    /\ ~Populated(row, "Due Date", "Due Time")
    /\ dueOut' = "skipped"
    /\ pc' = "start"
    /\ UNCHANGED <<cliVars, offVars, csvfile, coordVars, rowVars, startOut, rowOut,
                   sessionVars>>

\* the session's variables once its result has been consumed
SessionOver ==
    /\ kind' = "none"
    /\ frame' = {}
    /\ checkbox_result' = NoCheckbox
    /\ result' = AllFalse
    /\ editRet' = FALSE
    /\ clicks' = <<>>
    /\ toggles' = NoToggle
    /\ UNCHANGED <<ctx, dialog_open>>

\* a failed due edit ends the record
due_return_m ==
    /\ pc = "ret"
    /\ kind = "Due"
    /\ IF editRet
       THEN /\ due_success' = TRUE
            /\ UNCHANGED error_count
       ELSE /\ error_count' = error_count + 1
            /\ UNCHANGED due_success
    /\ dueOut' = IF editRet THEN "ok" ELSE "fail"
    /\ SessionOver
    /\ all_edits_ok' = (all_edits_ok /\ editRet)
    /\ pc' = IF editRet THEN "start" ELSE "count"
    /\ UNCHANGED <<cliVars, offVars, csvfile, processed_count, start_success, ret,
                   rowVars, startOut, rowOut>>

\* set_assignment_due_date returned: due_success or error_count += 1
due_return ==
    /\ pc = "ret"
    /\ kind = "Due"
    /\ IF editRet
       THEN /\ due_success' = TRUE
            /\ UNCHANGED error_count
       ELSE /\ error_count' = error_count + 1
            /\ UNCHANGED due_success
    /\ dueOut' = IF editRet THEN "ok" ELSE "fail"
    /\ SessionOver
    /\ all_edits_ok' = (all_edits_ok /\ editRet)
    /\ pc' = "start"
    /\ UNCHANGED <<cliVars, offVars, csvfile, processed_count, start_success, ret,
                   rowVars, startOut, rowOut>>

\* if start_date and start_time: set_assignment_start_date is called
start_begin ==
    /\ pc = "start"
    /\ IF StripRaises(row, "Start Date") \/ StripRaises(row, "Start Time")
       THEN /\ RecordException
            /\ UNCHANGED <<kind, target, processed_count, due_success,
                           start_success, ret, all_edits_ok>>
       ELSE /\ Populated(row, "Start Date", "Start Time")
            /\ kind' = "Start"
            /\ target' = clean_assignment_name(row)
            /\ pc' = "find"
            /\ UNCHANGED <<coordVars, rowOut>>
    /\ UNCHANGED <<cliVars, pwVars, listing, resolution, key, parseVars, runVars,
                   csvfile, rowVars, dueOut, startOut, ctx, frame,
                   checkbox_result, result, editRet, clicks, dialog_open,
                   toggles>>

\* the start field is skipped
start_skip ==
    /\ pc = "start"
    /\ ~StripRaises(row, "Start Date")
    /\ ~StripRaises(row, "Start Time")
    /\ ~Populated(row, "Start Date", "Start Time")
    /\ startOut' = "skipped"
    /\ pc' = "count"
    /\ UNCHANGED <<cliVars, offVars, csvfile, coordVars, rowVars, dueOut, rowOut,
                   sessionVars>>

\* a failed start edit is not counted
start_return_m ==
    /\ pc = "ret"
    /\ kind = "Start"
    /\ start_success' = (start_success \/ editRet)
    /\ startOut' = IF editRet THEN "ok" ELSE "fail"
    /\ SessionOver
    /\ all_edits_ok' = (all_edits_ok /\ editRet)
    /\ pc' = "count"
    /\ UNCHANGED <<cliVars, offVars, csvfile, processed_count, error_count, due_success,
                   ret, rowVars, dueOut, rowOut>>

\* set_assignment_start_date returned: start_success or error_count += 1
start_return ==
    /\ pc = "ret"
    /\ kind = "Start"
    /\ IF editRet
       THEN /\ start_success' = TRUE
            /\ UNCHANGED error_count
       ELSE /\ error_count' = error_count + 1
            /\ UNCHANGED start_success
    /\ startOut' = IF editRet THEN "ok" ELSE "fail"
    /\ SessionOver
    /\ all_edits_ok' = (all_edits_ok /\ editRet)
    /\ pc' = "count"
    /\ UNCHANGED <<cliVars, offVars, csvfile, processed_count, due_success, ret,
                   rowVars, dueOut, rowOut>>

\* one increment per successful field
count_record_m ==
    /\ pc = "count"
    /\ processed_count' =
          processed_count + (IF start_success THEN 1 ELSE 0)
                          + (IF due_success THEN 1 ELSE 0)
    /\ rowOut' = "done"
    /\ pc' = "loop"
    /\ UNCHANGED <<cliVars, offVars, csvfile, error_count, due_success, start_success,
                   ret, all_edits_ok, rowVars, dueOut, startOut, sessionVars>>

\* if start_success or due_success: processed_count += 1
count_record ==
    /\ pc = "count"
    /\ processed_count' =
          IF start_success \/ due_success THEN processed_count + 1
          ELSE processed_count
    /\ rowOut' = "done"
    /\ pc' = "loop"
    /\ UNCHANGED <<cliVars, offVars, csvfile, error_count, due_success, start_success,
                   ret, all_edits_ok, rowVars, dueOut, startOut, sessionVars>>

(***************************************************************************)
(* The field editor session.                                               *)
(***************************************************************************)
\* the edit returns to process_csv_file, True only if Save was clicked too
EditReturns_m(r) ==
    /\ result' = r
    /\ editRet' = ((r.dateSet \/ r.timeSet) /\ r.saveClicked)
    /\ pc' = "ret"

\* the edit returns to process_csv_file with result r
EditReturns(r) ==
    /\ result' = r
    /\ editRet' = (r.dateSet \/ r.timeSet)
    /\ pc' = "ret"

\* the edit returns False before any dialog was looked for, after the
\* given attempts to click the link
EditFails(attempts) ==
    /\ editRet' = FALSE
    /\ clicks' = attempts
    /\ pc' = "ret"
    /\ UNCHANGED <<kind, ctx, frame, checkbox_result, result, dialog_open, toggles>>

\* the link was clicked: the mini editor is called
LinkClicked(attempts) ==
    /\ clicks' = attempts
    /\ pc' = "mini"
    /\ UNCHANGED <<kind, ctx, frame, checkbox_result, result, editRet, dialog_open,
                   toggles>>

\* find_assignment_*_date_link queries the document the driver is switched
\* to: the rows of the listing are in the top-level document only
LinkFound(listed) == listed /\ ctx = "top"

\* set_assignment_due_date up to the call of set_date_in_mini_editor
set_assignment_due_date ==
    /\ pc = "find"
    /\ kind = "Due"
    /\ \E listed \in BOOLEAN, clickOK \in BOOLEAN :
          IF ~LinkFound(listed) THEN EditFails(<<>>)
          ELSE IF ~clickOK
          THEN \* due_date_link.click() raises: except, return False
               EditFails(<<FALSE>>)
          ELSE LinkClicked(<<TRUE>>)
    /\ UNCHANGED <<cliVars, offVars, csvfile, coordVars, rowVars, obsVars>>

\* set_assignment_start_date up to the call of set_start_date_in_mini_editor:
\* a failed click is retried once as a JavaScript click
set_assignment_start_date ==
    /\ pc = "find"
    /\ kind = "Start"
    /\ \E listed \in BOOLEAN, clickOK \in BOOLEAN, jsClickOK \in BOOLEAN :
          IF ~LinkFound(listed) THEN EditFails(<<>>)
          ELSE IF clickOK THEN LinkClicked(<<TRUE>>)
          ELSE IF jsClickOK THEN LinkClicked(<<FALSE, TRUE>>)
          ELSE EditFails(<<FALSE, FALSE>>)
    /\ UNCHANGED <<cliVars, offVars, csvfile, coordVars, rowVars, obsVars>>

\* the for/else loop over the iframes, common to both mini editors
ProbeFrames(iframes) ==
    IF FirstDateFrame(iframes) = 0
    THEN /\ ctx' = "top"
         /\ EditReturns(AllFalse)
         /\ UNCHANGED <<kind, clicks, frame, checkbox_result>>
    ELSE /\ ctx' = "frame"
         /\ frame' = iframes[FirstDateFrame(iframes)]
         /\ pc' = "iframe"
         /\ UNCHANGED <<kind, clicks, checkbox_result, result, editRet>>

\* presence of a [role='dialog'] element after the click: a dialog left on
\* the page by an earlier edit is found as well
DialogPresent == { d \in BOOLEAN : dialog_open => d }

\* set_date_in_mini_editor up to the call of set_date_in_iframe
set_date_in_mini_editor ==
    /\ pc = "mini"
    /\ kind = "Due"
    /\ \E dialog \in DialogPresent, iframes \in FrameSeqs :
          /\ dialog_open' = dialog
          /\ IF ~dialog
             THEN \* wait.until times out: except, switch_to.default_content()
                  /\ ctx' = "top"
                  /\ EditReturns(AllFalse)
                  /\ UNCHANGED <<kind, clicks, frame, checkbox_result>>
             ELSE IF iframes = <<>>
             THEN /\ EditReturns(AllFalse)
                  /\ UNCHANGED <<kind, clicks, ctx, frame, checkbox_result>>
             ELSE ProbeFrames(iframes)
    /\ UNCHANGED <<cliVars, offVars, csvfile, coordVars, rowVars, obsVars, toggles>>

\* set_start_date_in_mini_editor up to the call of set_date_in_iframe
set_start_date_in_mini_editor ==
    /\ pc = "mini"
    /\ kind = "Start"
    /\ \E dialog \in DialogPresent, iframe_present \in BOOLEAN,
          iframes \in FrameSeqs :
          LET dialog_found == dialog \/ iframe_present IN
          /\ dialog_open' = dialog
          /\ IF ~dialog_found \/ iframes = <<>>
             THEN /\ EditReturns(AllFalse)
                  /\ UNCHANGED <<kind, clicks, ctx, frame, checkbox_result>>
             ELSE ProbeFrames(iframes)
    /\ UNCHANGED <<cliVars, offVars, csvfile, coordVars, rowVars, obsVars, toggles>>

\* checkbox_id argument of set_date_in_iframe: "z_o" from the start editor,
\* None from the due editor
checkbox_id == IF kind = "Start" THEN "z_o" ELSE "None"

\* the id looked up
checkbox_selector == IF checkbox_id # "None" THEN checkbox_id ELSE "z_k"

\* "if checkbox_id and not checkbox_result.get('nowChecked', False)"
AbortUnchecked(cr) == checkbox_id # "None" /\ ~cr.nowChecked

new_date == IF kind = "Start" THEN row["Start Date"] ELSE row["Due Date"]
new_time == IF kind = "Start" THEN row["Start Time"] ELSE row["Due Time"]

\* the script of STEP 2 and the Save click of STEP 3; a click on Save is
\* the only thing in the code that makes the page close the dialog
WriteAndSave(saveOK) ==
    LET dateFound == {"year", "month", "day"} \subseteq frame
        timeFound == {"hour", "minute"} \subseteq frame
    IN  /\ ctx' = "top"
        /\ dialog_open' = (dialog_open /\ ~saveOK)
        /\ EditReturns([dateFound |-> dateFound, dateSet |-> dateFound,
                        timeFound |-> timeFound, timeSet |-> timeFound,
                        saveClicked |-> saveOK])

\* the try block that parses the date and the time raises only when both
\* are malformed
ParseRaises_m(d, t) == ~DateParses(d) /\ ~TimeParses(t)

\* the try block that parses the date and the time raises
ParseRaises(d, t) == ~(DateParses(d) /\ TimeParses(t))

\* the toggle is activated whatever its state
ShouldActivate_m(is_checked) == TRUE

\* "if is_checked: ... else:" the toggle is activated only when it is found
\* unchecked
ShouldActivate(is_checked) == ~is_checked

\* the has-date toggle across STEP 1: the start toggle is activated by a
\* script that sets checked = true and dispatches change and input, the due
\* toggle by a click, which inverts it; activated is what is_selected()
\* answers when the activation did not fail
CheckboxStep(id, is_checked, activated) ==
    IF ShouldActivate(is_checked)
    THEN [id |-> id, before |-> is_checked, acted |-> {id},
          after |-> IF ~activated THEN is_checked
                    ELSE IF id = "z_o" THEN TRUE ELSE ~is_checked]
    ELSE [id |-> id, before |-> is_checked, acted |-> {}, after |-> is_checked]

\* set_date_in_iframe, and the return through the mini editor to the caller
set_date_in_iframe ==
    /\ pc = "iframe"
    /\ \E found \in BOOLEAN, is_checked \in BOOLEAN, activated \in BOOLEAN,
          scriptOK \in BOOLEAN, saveOK \in BOOLEAN :
          IF ParseRaises(strip(new_date), strip(new_time))
          THEN /\ EditReturns(AllFalse)
               /\ UNCHANGED <<ctx, checkbox_result, dialog_open, toggles>>
          ELSE IF ~found
          THEN /\ checkbox_result' = NoCheckbox
               /\ EditReturns(AllFalse)
               /\ UNCHANGED <<ctx, dialog_open, toggles>>
          ELSE LET t == CheckboxStep(checkbox_selector, is_checked, activated)
                   cr == [found |-> TRUE, wasUnchecked |-> ~is_checked,
                          nowChecked |-> t.after]
               IN  /\ checkbox_result' = cr
                   /\ toggles' = t
                   /\ IF AbortUnchecked(cr)
                      THEN /\ EditReturns(AllFalse)
                           /\ UNCHANGED <<ctx, dialog_open>>
                      ELSE IF ~scriptOK
                      THEN \* outer except: switch_to.default_content()
                           /\ ctx' = "top"
                           /\ EditReturns(AllFalse)
                           /\ UNCHANGED dialog_open
                      ELSE WriteAndSave(saveOK)
    /\ UNCHANGED <<cliVars, offVars, csvfile, coordVars, rowVars, obsVars, kind,
                   clicks, frame>>

(***************************************************************************)
(* d2l_playwright_processor.D2LProcessor: process_course and               *)
(* perform_date_updates.                                                   *)
(***************************************************************************)
\* the dict process_course builds from a CSV row: every value stripped, a
\* missing cell read as ''
AssignmentOf(r) ==
    [assignment |-> strip(r["Name"]),
     start_date |-> strip(r["Start Date"]),
     start_time |-> strip(r["Start Time"]),
     due_date |-> strip(r["Due Date"]),
     due_time |-> strip(r["Due Time"])]

PwAssignments == { AssignmentOf(r) : r \in FullRows }

EndsWith(s, sub) ==
    Len(s) >= Len(sub) /\ SubSeq(s, Len(s) - Len(sub) + 1, Len(s)) = sub

\* str.split(':', 1) when ':' in s, else (s, '0')
HourMinuteStr(s) ==
    IF Contains(s, <<":">>)
    THEN LET k == CHOOSE i \in 1..Len(s) :
                     s[i] = ":" /\ \A j \in 1..(i - 1) : s[j] # ":"
         IN  <<SubSeq(s, 1, k - 1), SubSeq(s, k + 1, Len(s))>>
    ELSE <<s, <<"0">>>>

\* _parse_time_str returns an (hour, minute) pair, not (None, None)
parse_time_str_ok(time_str) ==
    /\ time_str # <<>>
    /\ \E s \in {strip(time_str)} :
       \E am_pm \in {EndsWith(upper(s), <<"A", "M">>) \/ EndsWith(upper(s), <<"P", "M">>)} :
       \E body \in {IF am_pm THEN strip(SubSeq(s, 1, Len(s) - 2)) ELSE s} :
       \E hm \in {HourMinuteStr(body)} :
          IsIntLiteral(hm[1]) /\ IsIntLiteral(hm[2])

\* strings accepted by strptime(s, '%Y-%m-%d') among the inputs
IsoDates == { <<"2", "0", "2", "5", "-", "0", "5", "-", "0", "1">> }

\* month, day, year of set_date_in_dialog: all '' when parsing raised
DialogDateParts(date_str) ==
    IF Contains(date_str, <<"/">>)
    THEN LET parts == split(date_str, "/")
         IN  IF Len(parts) = 3
             THEN <<strip(parts[1]), strip(parts[2]), strip(parts[3])>>
             ELSE <<<<>>, <<>>, <<>>>>
    ELSE IF date_str \in IsoDates \cup LongFormDates
    THEN <<<<"m">>, <<"d">>, <<"y">>>>
    ELSE <<<<>>, <<>>, <<>>>>

\* "if month and day and year"
DateAvailable(date_str) ==
    \A i \in 1..3 : DialogDateParts(date_str)[i] # <<>>

\* index of the first iframe holding the year, the month and the day input
TargetFrame(iframes) ==
    IF \E i \in 1..Len(iframes) : {"year", "month", "day"} \subseteq iframes[i]
    THEN CHOOSE i \in 1..Len(iframes) :
            {"year", "month", "day"} \subseteq iframes[i]
            /\ \A j \in 1..(i - 1) : ~({"year", "month", "day"} \subseteq iframes[j])
    ELSE 0

\* check_selector given to set_date_in_dialog by update_due_date and by
\* update_start_date
check_selector(k) == IF k = "Due" THEN "z_k" ELSE "z_o"

\* "if checkbox: checked = is_checked(); if not checked: checkbox.check()";
\* check() leaves the toggle checked, or raises into "except: pass"
DialogToggle(id, found, checked, checkOK) ==
    IF ~found THEN NoToggle
    ELSE IF ShouldActivate(checked)
    THEN [id |-> id, before |-> checked, acted |-> {id},
          after |-> IF checkOK THEN TRUE ELSE checked]
    ELSE [id |-> id, before |-> checked, acted |-> {}, after |-> checked]

\* set_date_in_dialog: what it does in a dialog that appeared
DialogEdits(k, date_str, time_str) ==
    UNION {
      { IF TargetFrame(iframes) = 0
        THEN [NoEdit EXCEPT !.kind = k, !.raised = TRUE]
        ELSE LET f == iframes[TargetFrame(iframes)]
             IN  [kind |-> k, raised |-> FALSE, frame |-> f,
                  checked |-> checked,
                  toggle |-> DialogToggle(check_selector(k), found, checked,
                                          checkOK),
                  dateFilled |-> dateGiven /\ fillOK,
                  timeFilled |-> timeGiven /\ fillOK
                                   /\ {"hour", "minute"} \subseteq f,
                  saveClicked |-> saveBtn] :
        iframes \in FrameSeqs, found \in BOOLEAN, checked \in BOOLEAN,
        checkOK \in BOOLEAN, fillOK \in BOOLEAN, saveBtn \in BOOLEAN } :
      dateGiven \in { DateAvailable(date_str) },
      timeGiven \in { time_str # <<>> /\ parse_time_str_ok(time_str) } }

\* update_due_date / update_start_date: the sessions the page can produce
\* for one field; without the link, the click or the dialog the edit raises
DialogSessions(k, date_str, time_str) ==
    UNION { IF ~linkFound \/ ~clickOK \/ ~dialog
            THEN { [NoEdit EXCEPT !.kind = k, !.raised = TRUE] }
            ELSE DialogEdits(k, date_str, time_str) :
            linkFound \in BOOLEAN, clickOK \in BOOLEAN, dialog \in BOOLEAN }

\* process_course: open the listing, read the CSV, call perform_date_updates
process_course ==
    /\ pc = "process_course"
    /\ \E navOK \in BOOLEAN, csvOK \in BOOLEAN, nav2OK \in BOOLEAN :
          IF ~navOK
          THEN /\ pc' = "pw_failed"
               /\ UNCHANGED assignments_processed
          ELSE /\ assignments_processed' = IF csvOK THEN nAssignments ELSE 0
               /\ pc' = IF assignments_processed' > 0 /\ nav2OK
                        THEN "pw_loop" ELSE "pw_done"
    /\ UNCHANGED <<seleniumVars, nAssignments, idx, assignment_info, pw_row,
                   pw_resolved, pw_due, pw_start, pw_edit>>

\* perform_date_updates takes the next dict of assignments
perform_date_updates_next ==
    /\ pc = "pw_loop"
    /\ idx < assignments_processed
    /\ \E a \in PwAssignments : assignment_info' = a
    /\ idx' = idx + 1
    /\ pw_row' = "None"
    /\ pw_resolved' = FALSE
    /\ pw_due' = "none"
    /\ pw_start' = "none"
    /\ pw_edit' = NoEdit
    /\ pc' = "pw_record"
    /\ UNCHANGED <<seleniumVars, nAssignments, assignments_processed>>

\* the list is exhausted
perform_date_updates_end ==
    /\ pc = "pw_loop"
    /\ idx = assignments_processed
    /\ pc' = "pw_done"
    /\ UNCHANGED <<seleniumVars, pwVars>>

\* name = assignment_info.get('assignment', '').strip()
pw_name(info) == strip(info.assignment)

\* the name check and find_assignment_row
locate_row ==
    /\ pc = "pw_record"
    /\ IF pw_name(assignment_info) = <<>>
       THEN /\ pc' = "pw_loop"
            /\ UNCHANGED <<pw_row, pw_resolved>>
       ELSE \E found \in BOOLEAN :
               /\ pw_resolved' = TRUE
               /\ pw_row' = IF found THEN "row" ELSE "None"
               /\ pc' = IF found THEN "pw_due" ELSE "pw_loop"
    /\ UNCHANGED <<seleniumVars, nAssignments, assignments_processed, idx,
                   assignment_info, pw_due, pw_start, pw_edit>>

\* "if due_date_str": update_due_date inside try/except
due_date_update ==
    /\ pc = "pw_due"
    /\ IF strip(assignment_info.due_date) = <<>>
       THEN /\ pw_due' = "skipped"
            /\ UNCHANGED pw_edit
       ELSE \E e \in DialogSessions("Due", strip(assignment_info.due_date),
                                    strip(assignment_info.due_time)) :
               /\ pw_edit' = e
               /\ pw_due' = IF e.raised THEN "fail" ELSE "ok"
    /\ pc' = "pw_start"
    /\ UNCHANGED <<seleniumVars, nAssignments, assignments_processed, idx,
                   assignment_info, pw_row, pw_resolved, pw_start>>

\* "if start_date_str": update_start_date inside try/except
start_date_update ==
    /\ pc = "pw_start"
    /\ IF strip(assignment_info.start_date) = <<>>
       THEN /\ pw_start' = "skipped"
            /\ UNCHANGED pw_edit
       ELSE \E e \in DialogSessions("Start", strip(assignment_info.start_date),
                                    strip(assignment_info.start_time)) :
               /\ pw_edit' = e
               /\ pw_start' = IF e.raised THEN "fail" ELSE "ok"
    /\ pc' = "pw_loop"
    /\ UNCHANGED <<seleniumVars, nAssignments, assignments_processed, idx,
                   assignment_info, pw_row, pw_resolved, pw_due>>

\* sys.argv[1] and sys.argv[2] of the CLI entry point: the action, and the
\* course code or None when it was left out
Invocations ==
    { [action |-> a, course_code |-> c] :
      a \in {"login", "open-course", "process"}, c \in {"None", "CA4105"} }

\* automate_d2l up to the branch on the action: attach to Chrome, then hold
\* the browser open, or call process_course
automate_d2l ==
    /\ pc = "run_automation"
    /\ \E connected \in BOOLEAN, navOK \in BOOLEAN :
          IF ~connected THEN pc' = "automation_failed"
          ELSE IF invocation.action = "open-course"
                  /\ invocation.course_code # "None"
          THEN \* open_course, then "await asyncio.Event().wait()"
               pc' = IF navOK THEN "holding" ELSE "automation_failed"
          ELSE IF invocation.action = "process" /\ invocation.course_code # "None"
          THEN pc' = "process_course"
          ELSE \* the login flow: page.goto, then "await asyncio.Event().wait()"
               pc' = IF navOK THEN "holding" ELSE "automation_failed"
    /\ UNCHANGED <<seleniumVars, pwVars>>

\* asyncio.run returned or raised: run_automation returns True or False
run_automation_return ==
    /\ pc \in {"pw_done", "pw_failed", "automation_failed"}
    /\ success' = (pc = "pw_done")
    /\ pc' = "run_returned"
    /\ UNCHANGED <<cliVars, csvfile, coordVars, rowVars, obsVars, sessionVars,
                   resolverVars, parseVars, invocation, pwVars>>

Next ==
    \/ main_usage
    \/ main_setup_failed
    \/ main_navigation_failed
    \/ main_process
    \/ main_result
    \/ process_csv_file_fatal
    \/ process_csv_file_begin
    \/ loop_next
    \/ loop_read_error
    \/ loop_end
    \/ row_begin
    \/ due_begin
    \/ due_skip
    \/ due_return
    \/ start_begin
    \/ start_skip
    \/ start_return
    \/ count_record
    \/ set_assignment_due_date
    \/ set_assignment_start_date
    \/ set_date_in_mini_editor
    \/ set_start_date_in_mini_editor
    \/ set_date_in_iframe
    \/ process_course
    \/ perform_date_updates_next
    \/ perform_date_updates_end
    \/ locate_row
    \/ due_date_update
    \/ start_date_update

Spec == Init /\ [][Next]_vars

(***************************************************************************)
(* D2LProcessor.run_automation from its call to its return.  Each step of  *)
(* the coroutine is bounded by a timeout, so a step that can be taken is   *)
(* taken: weak fairness of the next-state action.                          *)
(***************************************************************************)
InitAutomate ==
    /\ pc = "run_automation"
    /\ csvfile = NoFile
    /\ nAssignments \in 0..MaxRows
    /\ invocation \in Invocations
    /\ target = <<>>
    /\ listing = <<>>
    /\ time_cell = <<>>
    /\ Constructed

NextAutomate ==
    \/ automate_d2l
    \/ process_course
    \/ perform_date_updates_next
    \/ perform_date_updates_end
    \/ locate_row
    \/ due_date_update
    \/ start_date_update
    \/ run_automation_return

SpecAutomate == InitAutomate /\ [][NextAutomate]_vars /\ WF_vars(NextAutomate)

(***************************************************************************)
(* process_csv_file on files whose data rows are given in advance.         *)
(***************************************************************************)
\* a data row with every cell present
Record(n, sd, st, dd, dt) ==
    [c \in Range(required_headers) |->
        CASE c = "Name" -> n
          [] c = "Start Date" -> sd
          [] c = "Start Time" -> st
          [] c = "Due Date" -> dd
          [] OTHER -> dt]

GoodDate == <<"1", "/", "2", "/", "3">>
GoodTime == <<"2", ":", "3", "0", " ", "p", "m">>

DueOnly == Record(<<"H", "W">>, <<>>, <<>>, GoodDate, GoodTime)
StartOnly == Record(<<"H", "W">>, GoodDate, GoodTime, <<>>, <<>>)
Both == Record(<<"H", "W">>, GoodDate, GoodTime, GoodDate, GoodTime)
EmptyName == Record(<<" ">>, GoodDate, GoodTime, GoodDate, GoodTime)
NoDates == Record(<<"H", "W">>, GoodDate, <<>>, <<>>, GoodTime)

BatchRecords == {DueOnly, StartOnly, Both, EmptyName, NoDates}

BatchFiles ==
    { [exists |-> TRUE, fieldnames |-> required_headers, nRows |-> Len(rows),
       readFailAt |-> 0, content |-> rows] :
      rows \in UNION { [1..n -> BatchRecords] : n \in 0..MaxBatch } }

\* process_csv_file is called on an open listing (as D2L_Gui.update_dates
\* does) with a readable file
InitBatch ==
    /\ pc = "open"
    /\ csvfile \in BatchFiles
    /\ nAssignments = 0
    /\ target = <<>>
    /\ listing = <<>>
    /\ time_cell = <<>>
    /\ invocation = NoInvocation
    /\ Constructed

NextBatch ==
    \/ process_csv_file_begin
    \/ loop_next
    \/ loop_end
    \/ row_begin
    \/ due_begin
    \/ due_skip
    \/ due_return
    \/ start_begin
    \/ start_skip
    \/ start_return
    \/ count_record
    \/ set_assignment_due_date
    \/ set_assignment_start_date
    \/ set_date_in_mini_editor
    \/ set_start_date_in_mini_editor
    \/ set_date_in_iframe

SpecBatch == InitBatch /\ [][NextBatch]_vars

(***************************************************************************)
(* process_csv_file while the operator may ask for the run to stop.        *)
(***************************************************************************)
\* positions inside the loop of process_csv_file
InLoop ==
    pc \in {"loop", "row", "due", "start", "find", "mini", "iframe", "ret", "count"}

\* the operator asks for the run to stop.  process_csv_file takes no stop
\* flag or event and polls for none: the request changes nothing it reads
request_cancel ==
    /\ InLoop
    /\ ~cancel_requested
    /\ cancel_requested' = TRUE
    /\ UNCHANGED <<pc, exit_code, fatal, offVars, csvfile, coordVars, rowVars,
                   obsVars, sessionVars>>

InitCancel ==
    /\ pc = "open"
    /\ csvfile \in { f \in BatchFiles : f.nRows <= MaxRows }
    /\ nAssignments = 0
    /\ target = <<>>
    /\ listing = <<>>
    /\ time_cell = <<>>
    /\ invocation = NoInvocation
    /\ Constructed

NextCancel ==
    \/ NextBatch
    \/ request_cancel

SpecCancel == InitCancel /\ [][NextCancel]_vars

(***************************************************************************)
(* D2LDateProcessor.find_assignment_due_date_link and                      *)
(* find_assignment_start_date_link.                                        *)
(***************************************************************************)
\* name_normalized_lower and link_normalized_lower
name_normalized_lower(text) ==
    lower(remove_emojis(strip(sub_spaces(sub_commas(sub_dashes(text))))))

\* clean_normalized and link_normalized of the comparison without quotes,
\* applied to a text whose emojis were removed
clean_normalized(text_no_emoji) ==
    lower(strip(sub_spaces(sub_commas(sub_dashes(text_no_emoji)))))

\* link.text.strip()
link_text(r) == strip(r.label)

\* containment either way where equality is meant
NormalizedMatch_m(a, b) == Contains(a, b) \/ Contains(b, a)

\* name_normalized_lower == link_normalized_lower
NormalizedMatch(a, b) == a = b

\* the rows of the listing, by position in the document
Indices(links) == [i \in 1..Len(links) |-> i]

\* find_elements(By.XPATH, "//a[contains(text(), '<name>')]")
links_containing(links, name) ==
    SelectSeq(Indices(links), LAMBDA i : Contains(links[i].label, name))

\* "assignment_links = [link]; break" at the first link passing the test
FirstOnly(hits) == IF hits = <<>> THEN <<>> ELSE <<Head(hits)>>

\* assignment_name.replace('"', '').replace("'", '')
clean_name(name) == remove_char(remove_char(name, "\""), "'")

\* assignment_name.replace(' key', '')
key_part(name) == remove(name, <<" ", "k", "e", "y">>)

\* the test of the last loop: containment either way, emojis and case aside
KeyLooseMatch(name, r) ==
    LET k == lower(remove_emojis(key_part(name)))
        t == lower(remove_emojis(link_text(r)))
    IN  Contains(t, k) \/ Contains(k, t)

\* assignment_links as one strategy leaves it, entered with no link found
StageLinks(stage, name, links) ==
    CASE stage = "exact" -> links_containing(links, name)
      [] stage = "normalized" ->
            FirstOnly(SelectSeq(Indices(links), LAMBDA i :
                NormalizedMatch(name_normalized_lower(name),
                                name_normalized_lower(link_text(links[i])))))
      [] stage = "noquotes" -> links_containing(links, clean_name(name))
      [] stage = "noquotes_normalized" ->
            FirstOnly(SelectSeq(Indices(links), LAMBDA i :
                clean_normalized(remove_emojis(clean_name(name)))
                    = clean_normalized(remove_emojis(link_text(links[i])))))
      [] stage = "key" ->
            IF Contains(name, <<"k", "e", "y">>)
            THEN links_containing(links, key_part(name))
            ELSE <<>>
      [] OTHER ->
            IF Contains(name, <<"k", "e", "y">>)
            THEN FirstOnly(SelectSeq(Indices(links), LAMBDA i :
                     KeyLooseMatch(name, links[i])))
            ELSE <<>>

\* the normalized comparison tried before the exact one
StageOrder_m ==
    <<"normalized", "exact", "noquotes", "noquotes_normalized", "key", "key_loose">>

\* the order of the "if not assignment_links" blocks
StageOrder ==
    <<"exact", "normalized", "noquotes", "noquotes_normalized", "key", "key_loose">>

\* the chain of "if not assignment_links" blocks
RECURSIVE TryStages(_, _, _)
TryStages(stages, name, links) ==
    IF stages = <<>> THEN [stage |-> "none", candidates |-> <<>>]
    ELSE LET hits == StageLinks(Head(stages), name, links)
         IN  IF hits # <<>> THEN [stage |-> Head(stages), candidates |-> hits]
             ELSE TryStages(Tail(stages), name, links)

\* all_assignment_links[:10] and "len(text) > 5" of the due date search
DueAvailableShown == 10
DueAvailableMinLen == 5
\* all_content_links[:15] and "len(text) > 2" of the start date search
StartAvailableShown == 15
StartAvailableMinLen == 2

\* the "Available n: '<text>'" lines logged when no link was found
Available(links, shown, minlen) ==
    LET n == IF Len(links) < shown THEN Len(links) ELSE shown
        texts == [i \in 1..n |-> link_text(links[i])]
    IN  SelectSeq(texts, LAMBDA t : t # <<>> /\ Len(t) > minlen)

\* a due date link is found by the selectors applied to the matched row /
\* by those applied to the rows of the cells containing the name
DueLinkInRow(r) == r.due \in {"row", "any"}
DueLinkByCell(r) == r.due = "any"
StartLinkInRow(r) == r.start \in {"row", "any"}
StartLinkByCell(r) == r.start \in {"cell", "any"}
LinkInRow(fn, r) == IF fn = "due" THEN DueLinkInRow(r) ELSE StartLinkInRow(r)
LinkByCell(fn, r) == IF fn = "due" THEN DueLinkByCell(r) ELSE StartLinkByCell(r)

\* the body common to both functions; link is the row whose date link is
\* returned, 0 for None
FindLink(fn, name, links, shown, minlen) ==
    IF Contains(name, <<"'">>)
    THEN \* the XPath literal is malformed: find_elements raises
         [NoResult EXCEPT !.fn = fn, !.raised = TRUE]
    ELSE LET m == TryStages(StageOrder, name, links)
             r == IF m.candidates = <<>> THEN 0 ELSE m.candidates[1]
             inRow == r # 0 /\ LinkInRow(fn, links[r])
             cells == SelectSeq(links_containing(links, name),
                                LAMBDA i : LinkByCell(fn, links[i]))
         IN  [fn |-> fn, raised |-> FALSE, stage |-> m.stage,
              candidates |-> m.candidates, row |-> r,
              available |-> IF r = 0 THEN Available(links, shown, minlen)
                            ELSE <<>>,
              via |-> IF inRow THEN "row"
                      ELSE IF cells # <<>> THEN "table" ELSE "none",
              link |-> IF inRow THEN r
                       ELSE IF cells # <<>> THEN cells[1] ELSE 0]

find_assignment_due_date_link ==
    /\ pc = "resolve"
    /\ resolution' = FindLink("due", target, listing, DueAvailableShown,
                              DueAvailableMinLen)
    /\ pc' = "resolved"
    /\ UNCHANGED <<pwVars, runVars, cliVars, csvfile, coordVars, rowVars, obsVars,
                   sessionVars, target, listing, key, parseVars>>

find_assignment_start_date_link ==
    /\ pc = "resolve"
    /\ resolution' = FindLink("start", target, listing, StartAvailableShown,
                              StartAvailableMinLen)
    /\ pc' = "resolved"
    /\ UNCHANGED <<pwVars, runVars, cliVars, csvfile, coordVars, rowVars, obsVars,
                   sessionVars, target, listing, key, parseVars>>

\* labels of the listing
Labels ==
    { <<"E", " ", "1">>, <<"E", " ", "1", "0">>, <<"E", "-", "1">>,
      <<"E", " ", "1", "star">>, <<"W", "e", "e", "k", " ", "2">> }

\* names asked for: as a label, in lower case, with an en dash, with quotes
\* inside, with the filler " key", with an apostrophe
TargetNames ==
    { <<"E", " ", "1">>, <<"e", " ", "1">>, <<"E", "endash", "1">>,
      <<"E", " ", "\"", "1", "\"">>, <<"e", " ", "\"", "1", "\"">>,
      <<"E", " ", "1", " ", "k", "e", "y">>,
      <<"E", " ", "1", "0", " ", "k", "e", "y">>, <<"E", "'", "1">> }

ListingRows ==
    { [label |-> l, due |-> d, start |-> st] :
      l \in Labels, d \in {"none", "row", "any"},
      st \in {"none", "row", "cell", "any"} }

Listings == UNION { [1..n -> ListingRows] : n \in 0..MaxLinks }

\* one of the two functions is called on a loaded listing
InitResolve ==
    /\ pc = "resolve"
    /\ csvfile = NoFile
    /\ nAssignments = 0
    /\ target \in TargetNames
    /\ listing \in Listings
    /\ time_cell = <<>>
    /\ invocation = NoInvocation
    /\ Constructed

NextResolve ==
    \/ find_assignment_due_date_link
    \/ find_assignment_start_date_link

SpecResolve == InitResolve /\ [][NextResolve]_vars

(***************************************************************************)
(* The normalisation of find_assignment_due_date_link applied to a text,   *)
(* and applied again to what it returned.                                  *)
(***************************************************************************)
\* characters of the texts considered: a letter, a space, two of the dashes,
\* a character _remove_emojis deletes, a comma
LabelChars == {"E", " ", "-", "endash", "star", ","}

\* assignment names as process_csv_file passes them, and link texts as
\* link.text.strip() gives them: nothing to strip at either end
LabelTexts ==
    { s \in UNION { [1..n -> LabelChars] : n \in 0..MaxLabelLen } : strip(s) = s }

\* name_normalized_lower is computed from the text
normalize_name ==
    /\ pc = "normalize"
    /\ key' = name_normalized_lower(target)
    /\ pc' = "normalized"
    /\ UNCHANGED <<pwVars, runVars, cliVars, csvfile, coordVars, rowVars, obsVars,
                   sessionVars, target, listing, resolution, parseVars>>

\* the same lines are run on the text they returned
normalize_key ==
    /\ pc = "normalized"
    /\ target' = key
    /\ key' = name_normalized_lower(key)
    /\ pc' = "renormalized"
    /\ UNCHANGED <<pwVars, runVars, cliVars, csvfile, coordVars, rowVars, obsVars,
                   sessionVars, listing, resolution, parseVars>>

InitNormalize ==
    /\ pc = "normalize"
    /\ csvfile = NoFile
    /\ nAssignments = 0
    /\ target \in LabelTexts
    /\ listing = <<>>
    /\ time_cell = <<>>
    /\ invocation = NoInvocation
    /\ Constructed

NextNormalize ==
    \/ normalize_name
    \/ normalize_key

SpecNormalize == InitNormalize /\ [][NextNormalize]_vars

(***************************************************************************)
(* The two time parsers: the "Parse time" lines of set_date_in_iframe and  *)
(* D2LProcessor._parse_time_str.                                           *)
(***************************************************************************)
DigitChar(d) ==
    CASE d = 0 -> "0" [] d = 1 -> "1" [] d = 2 -> "2" [] d = 3 -> "3" [] d = 4 -> "4"
      [] d = 5 -> "5" [] d = 6 -> "6" [] d = 7 -> "7" [] d = 8 -> "8" [] OTHER -> "9"

\* str(n) for a natural number
RECURSIVE str(_)
str(n) ==
    IF n < 10 THEN <<DigitChar(n)>>
    ELSE str(n \div 10) \o <<DigitChar(n % 10)>>

\* f"{n:02d}" for a natural number
format02d(n) == IF n < 10 THEN <<"0">> \o str(n) ELSE str(n)

\* every PM hour has 12 added
pm_hour_m(h) == h + 12

\* int(hour) + 12 if int(hour) != 12 else 12
pm_hour(h) == IF h # 12 THEN h + 12 ELSE 12

\* 12 AM is left at 12
am_hour_m(h) == h

\* int(hour) if int(hour) != 12 else 0
am_hour(h) == IF h # 12 THEN h ELSE 0

\* hour and minute of set_date_in_iframe, as the strings handed to the script
iframe_time(new_time_str) ==
    LET up == upper(new_time_str)
        pm == Contains(up, <<"P", "M">>)
        am == ~pm /\ Contains(up, <<"A", "M">>)
        time_part ==
            IF pm THEN strip(remove(up, <<"P", "M">>))
            ELSE IF am THEN strip(remove(up, <<"A", "M">>))
            ELSE new_time_str
        parts == TimeParts(time_part)
    IN  IF ~TimeParses(new_time_str)
        THEN [NoTime EXCEPT !.fn = "iframe", !.raised = TRUE]
        ELSE [fn |-> "iframe", raised |-> FALSE, filled |-> FALSE,
              hour |-> IF pm THEN str(pm_hour(int(parts[1])))
                       ELSE IF am THEN str(am_hour(int(parts[1])))
                       ELSE parts[1],
              minute |-> parts[2]]

\* _parse_time_str: (hour, minute) as two-digit strings, or (None, None)
parse_time_str(time_str) ==
    IF time_str = <<>> \/ ~parse_time_str_ok(time_str)
    THEN [NoTime EXCEPT !.fn = "playwright"]
    ELSE LET s == strip(time_str)
             am_pm == IF EndsWith(upper(s), <<"A", "M">>) THEN "AM"
                      ELSE IF EndsWith(upper(s), <<"P", "M">>) THEN "PM"
                      ELSE "none"
             body == IF am_pm # "none" THEN strip(SubSeq(s, 1, Len(s) - 2)) ELSE s
             hour_minute == HourMinuteStr(body)
             h == int(hour_minute[1])
             hour == IF am_pm = "PM" /\ h # 12 THEN h + 12
                     ELSE IF am_pm = "AM" /\ h = 12 THEN 0
                     ELSE h
         IN  [fn |-> "playwright", raised |-> FALSE, filled |-> FALSE,
              hour |-> format02d(hour),
              minute |-> format02d(int(hour_minute[2]))]

\* a time text: hour, optional ":minute", optional AM/PM
TimeText(h, m, suffix) == str(h) \o m \o suffix

MinuteParts ==
    { <<>>, <<":", "0", "0">>, <<":", "0", "5">>, <<":", "3", "0">>,
      <<":", "5", "9">> }

Suffixes ==
    { <<>>, <<" ", "A", "M">>, <<" ", "P", "M">>, <<" ", "a", "m">>,
      <<" ", "p", "m">>, <<" ", "P", "m">>, <<"P", "M">> }

\* cells of the time columns: well-formed times, texts no parser accepts, and
\* the empty cell
TimeTexts ==
    { TimeText(h, m, x) : h \in 0..MaxHour, m \in MinuteParts, x \in Suffixes }
        \cup { <<>>, <<"x", " ", "P", "M">>, <<"2", ":">>,
               <<"1", ":", "2", ":", "3">> }

\* set_date_in_iframe parses the time; it is called with a time that is not
\* empty
set_date_in_iframe_time ==
    /\ pc = "parse"
    /\ time_cell # <<>>
    /\ time_out' = iframe_time(time_cell)
    /\ pc' = "parsed"
    /\ UNCHANGED <<pwVars, runVars, cliVars, csvfile, coordVars, rowVars, obsVars,
                   sessionVars, resolverVars, time_cell>>

\* "self._parse_time_str(time_str) if time_str else (None, None)" of
\* update_due_date and update_start_date
update_date_time ==
    /\ pc = "parse"
    /\ time_out' = IF time_cell # <<>> THEN parse_time_str(time_cell)
                   ELSE [NoTime EXCEPT !.fn = "playwright"]
    /\ pc' = "parsed"
    /\ UNCHANGED <<pwVars, runVars, cliVars, csvfile, coordVars, rowVars, obsVars,
                   sessionVars, resolverVars, time_cell>>

\* the time fields are filled whatever the parser returned
TimeWritten_m(hour, minute) == TRUE

\* "if hour is not None and minute is not None" of set_date_in_dialog
TimeWritten(hour, minute) == hour # NoneVal /\ minute # NoneVal

\* set_date_in_dialog decides whether to fill the hour and minute fields
set_date_in_dialog_time ==
    /\ pc = "parsed"
    /\ time_out.fn = "playwright"
    /\ time_out' =
          [time_out EXCEPT !.filled = TimeWritten(time_out.hour, time_out.minute)]
    /\ pc' = "filled"
    /\ UNCHANGED <<pwVars, runVars, cliVars, csvfile, coordVars, rowVars, obsVars,
                   sessionVars, resolverVars, time_cell>>

InitTime ==
    /\ pc = "parse"
    /\ csvfile = NoFile
    /\ nAssignments = 0
    /\ target = <<>>
    /\ listing = <<>>
    /\ time_cell \in TimeTexts
    /\ invocation = NoInvocation
    /\ Constructed

NextTime ==
    \/ set_date_in_iframe_time
    \/ update_date_time
    \/ set_date_in_dialog_time

SpecTime == InitTime /\ [][NextTime]_vars

TypeOK ==
    /\ pc \in {"main", "open", "loop", "row", "due", "start", "count", "find",
               "mini", "iframe", "ret", "returned", "exited", "process_course",
               "pw_loop", "pw_record", "pw_due", "pw_start", "pw_done",
               "pw_failed", "resolve", "resolved", "normalize", "normalized",
               "renormalized", "parse", "parsed", "filled", "run_automation",
               "holding", "automation_failed", "run_returned"}
    /\ processed_count \in 0..MaxRows
    /\ error_count \in 0..(2 * MaxRows)
    /\ ctx \in {"top", "frame"}
    /\ kind \in {"none", "Due", "Start"}

(***************************************************************************)
(* Properties of the batch coordinator.                                    *)
(***************************************************************************)
DuePopulated == Populated(row, "Due Date", "Due Time")
StartPopulated == Populated(row, "Start Date", "Start Time")

\* the file opens, has a header row and the header row has every column
HeaderComplete ==
    /\ csvfile.exists
    /\ \A c \in Range(required_headers) : c \in Range(csvfile.fieldnames)

\* C1: while the start edit of a record is in progress, the due edit of the
\* same record, if its due date and time are populated, has already returned
\* its outcome; and no due edit runs once the record's start field was handled.
C1_DueResolvedBeforeStart ==
    /\ (kind = "Start" /\ DuePopulated) => dueOut \in {"ok", "fail"}
    /\ kind = "Due" => startOut = "none"

C1_Witness ==
    /\ kind = "Start"
    /\ pc = "iframe"
    /\ DuePopulated
    /\ dueOut = "fail"

\* C2: when process_csv_file returns for a file with a complete header, every
\* data row the reader could deliver has been fetched and handled, whatever
\* failed in earlier rows: all rows, or all rows before the one the reader
\* itself fails on.
C2_BatchNotAborted ==
    (pc = "returned" /\ HeaderComplete) =>
        rowNum = IF csvfile.readFailAt = 0 THEN csvfile.nRows
                 ELSE csvfile.readFailAt - 1

C2_Witness ==
    /\ pc = "returned"
    /\ HeaderComplete
    /\ csvfile.readFailAt = 0
    /\ rowNum = 2
    /\ e0 >= 1
    /\ dueOut = "ok"

\* C3: an edit session that returns has written date or time components only
\* if the has-date toggle was verified checked, and a toggle found unchecked
\* and still unchecked after activation means nothing written and no commit.
C3_WriteOnlyWhenChecked ==
    pc = "ret" =>
        /\ (result.dateSet \/ result.timeSet) => checkbox_result.nowChecked
        /\ (checkbox_result.wasUnchecked /\ ~checkbox_result.nowChecked) =>
              (~result.dateSet /\ ~result.timeSet /\ ~result.saveClicked)

\* C4: whenever a field edit has returned to the coordinator, the driver is
\* switched to the top-level document.
C4_TopLevelAfterEdit == pc = "ret" => ctx = "top"

\* C5: processed_count grows by at most one per record, stays put while the
\* record is being handled, and has grown by one when the record is over
\* exactly if its due edit or its start edit succeeded.
C5_ProcessedOncePerRecord ==
    /\ processed_count - p0 \in {0, 1}
    /\ pc \in {"row", "due", "start", "find", "mini", "iframe", "ret", "count"}
          => processed_count = p0
    /\ (pc = "loop" /\ rowNum >= 1) =>
          (processed_count - p0 = 1 <=> (dueOut = "ok" \/ startOut = "ok"))

C5_Witness ==
    /\ pc = "loop"
    /\ dueOut = "ok"
    /\ startOut = "ok"
    /\ processed_count = p0 + 1

FailedEdits ==
    (IF dueOut = "fail" THEN 1 ELSE 0) + (IF startOut = "fail" THEN 1 ELSE 0)

\* C6: unless the record itself raised, error_count has grown since the record
\* was fetched by exactly the number of its field edits that returned failure
\* (nothing for a successful or skipped field); due succeeded and start failed
\* gives one more processed and one more error.
C6_ErrorPerFailedEdit ==
    /\ rowOut # "exception" => error_count - e0 = FailedEdits
    /\ (pc = "loop" /\ dueOut = "ok" /\ startOut = "fail") =>
          (processed_count - p0 = 1 /\ error_count - e0 = 1)

C6_Witness ==
    /\ pc = "loop"
    /\ dueOut = "ok"
    /\ startOut = "fail"

\* C7: when the field blocks of a record are over and its start date and time
\* are populated, the start edit has been attempted, whatever the due outcome.
C7_StartAttempted ==
    (pc = "count" /\ StartPopulated) => startOut \in {"ok", "fail"}

C7_Witness ==
    /\ pc = "count"
    /\ StartPopulated
    /\ dueOut = "fail"
    /\ startOut = "ok"

\* C8: the CLI exits 0 when the batch completed, and non-zero when the driver
\* could not be set up or a required column is missing from the header row.
C8_ExitCode ==
    pc = "exited" =>
        /\ fatal = "none" => exit_code = 0
        /\ fatal = "driver" => exit_code # 0
        /\ (ret # <<>> /\ csvfile.exists /\ csvfile.fieldnames # <<>>
              /\ ~HeaderComplete) => exit_code # 0

\* C9: with a required column missing from the header row, no row is fetched
\* and no field edit begins, and process_csv_file reports (0, 1).
C9_NoEditOnBadHeader ==
    (csvfile.exists /\ ~HeaderComplete) =>
        /\ pc \in {"main", "open", "returned", "exited"}
        /\ rowNum = 0
        /\ kind = "none"
        /\ ret \in {<<>>, <<0, 1>>}

C9_Witness ==
    /\ pc = "returned"
    /\ csvfile.exists
    /\ Len(csvfile.fieldnames) = 4
    /\ ret = <<0, 1>>

\* C10: a record whose name is empty once stripped is skipped.  In
\* process_csv_file it never gets past the name check: no field edit, no
\* outcome for either field, processed_count and error_count as they were
\* when it was fetched.  In perform_date_updates no row is located and no
\* dialog session is run for it.
C10_EmptyNameSkipped ==
    /\ (HasKey(row, "Name") /\ row["Name"] # NoneVal /\ strip(row["Name"]) = <<>>) =>
          /\ pc \in {"row", "loop", "returned", "exited"}
          /\ kind = "none"
          /\ dueOut = "none"
          /\ startOut = "none"
          /\ processed_count = p0
          /\ error_count = e0
    /\ (idx >= 1 /\ strip(assignment_info.assignment) = <<>>) =>
          /\ pc \in {"pw_record", "pw_loop", "pw_done"}
          /\ ~pw_resolved
          /\ pw_due = "none"
          /\ pw_start = "none"
          /\ pw_edit = NoEdit

C10_Witness ==
    /\ pc = "loop"
    /\ rowNum = 2
    /\ rowOut = "skipped"
    /\ row["Name"] = <<" ">>
    /\ Populated(row, "Due Date", "Due Time")
    /\ p0 = 1
    /\ processed_count = 1

\* every cell of the current record was read as text
AllCellsRead == rowNum >= 1 /\ \A c \in DOMAIN row : row[c] # NoneVal

DueCellsFilled == strip(row["Due Date"]) # <<>> /\ strip(row["Due Time"]) # <<>>
StartCellsFilled ==
    strip(row["Start Date"]) # <<>> /\ strip(row["Start Time"]) # <<>>

EligibleRecords ==
    { i \in 1..Len(csvfile.content) :
        LET r == csvfile.content[i] IN
        /\ strip(r["Name"]) # <<>>
        /\ \/ strip(r["Due Date"]) # <<>> /\ strip(r["Due Time"]) # <<>>
           \/ strip(r["Start Date"]) # <<>> /\ strip(r["Start Time"]) # <<>> }

ResolutionOrder ==
    <<"exact", "normalized", "noquotes", "noquotes_normalized", "key", "key_loose">>

\* what strategy k finds in the listing / in the one-row listing of row i
FoundBy(k) == StageLinks(ResolutionOrder[k], target, listing)
FoundInRow(k, i) == StageLinks(ResolutionOrder[k], target, <<listing[i]>>) # <<>>

\* C13: the strategy that supplied the row is the first, in the order exact
\* containment, normalized equality, without quotes (containment, then
\* normalized equality), without the filler (containment, then the last
\* loop), that finds anything: every earlier one found nothing; the row used
\* is the first row in document order that this strategy accepts, and a date
\* link found in that row is the one returned; no row is matched only if no
\* strategy finds anything.
C13_FirstStrategyFirstRow ==
    (pc = "resolved" /\ ~resolution.raised) =>
        /\ resolution.stage = "none" =>
              /\ resolution.row = 0
              /\ \A k \in 1..Len(ResolutionOrder) : FoundBy(k) = <<>>
        /\ \A k \in 1..Len(ResolutionOrder) :
              resolution.stage = ResolutionOrder[k] =>
                  /\ \A j \in 1..(k - 1) : FoundBy(j) = <<>>
                  /\ resolution.row \in 1..Len(listing)
                  /\ FoundInRow(k, resolution.row)
                  /\ \A i \in 1..(resolution.row - 1) : ~FoundInRow(k, i)
        /\ resolution.via = "row" => resolution.link = resolution.row

C13_Witness ==
    /\ pc = "resolved"
    /\ resolution.stage = "noquotes"
    /\ Len(resolution.candidates) = 2
    /\ resolution.row = 1
    /\ listing[1].label # listing[2].label
    /\ FoundBy(4) # <<>>

\* C14: a row supplied by the normalized-equality strategy has a label whose
\* normalized form equals the normalized target; asked for "e 1", the
\* strategy does not supply the row "E 10".
C14_NormalizedEqualityOnly ==
    (pc = "resolved" /\ resolution.stage = "normalized") =>
        /\ name_normalized_lower(link_text(listing[resolution.row]))
              = name_normalized_lower(target)
        /\ ~(/\ target = <<"e", " ", "1">>
             /\ listing[resolution.row].label = <<"E", " ", "1", "0">>)

C14_Witness ==
    /\ pc = "resolved"
    /\ resolution.stage = "normalized"
    /\ target = <<"e", " ", "1">>
    /\ Len(listing) = 2
    /\ listing[1].label = <<"E", " ", "1", "0">>
    /\ listing[2].label = <<"E", " ", "1">>
    /\ resolution.row = 2

\* C15: a row supplied by the strategy that drops the filler " key" has a
\* label that contains the target without the filler literally, or that
\* equals it after normalization.
C15_SuffixStrippedStrict ==
    (pc = "resolved" /\ resolution.stage \in {"key", "key_loose"}) =>
        LET stripped == remove(target, <<" ", "k", "e", "y">>)
            label == listing[resolution.row].label
        IN  \/ Contains(label, stripped)
            \/ name_normalized_lower(strip(label)) = name_normalized_lower(stripped)

\* C16: when no strategy matches, the labels reported as available are the
\* labels of the first ten rows of the listing (all of them when there are
\* fewer), in document order and as they are.
C16_AvailableComplete ==
    (pc = "resolved" /\ ~resolution.raised /\ resolution.row = 0) =>
        resolution.available =
            [i \in 1..(IF Len(listing) < 10 THEN Len(listing) ELSE 10) |->
                listing[i].label]

\* C17: name not found gives the caller None, so a row that was matched and
\* holds no date link for the field gives the caller some other value.
C17_NoTriggerDistinct ==
    (pc = "resolved" /\ ~resolution.raised) =>
        /\ resolution.row = 0 => resolution.link = 0
        /\ (/\ resolution.row # 0
            /\ resolution.fn = "due"
            /\ ~DueLinkInRow(listing[resolution.row])) => resolution.link # 0
        /\ (/\ resolution.row # 0
            /\ resolution.fn = "start"
            /\ ~StartLinkInRow(listing[resolution.row])) => resolution.link # 0

(***************************************************************************)
(* Properties of the field editor session.                                 *)
(***************************************************************************)
\* C18: for either field kind, a first click on the date link that fails is
\* followed by exactly one more attempt, and the edit gives up at the click
\* only after two failed attempts.
C18_ClickRetriedOnce ==
    kind \in {"Due", "Start"} =>
        /\ Len(clicks) <= 2
        /\ (clicks # <<>> /\ ~clicks[1]) => Len(clicks) = 2
        /\ (pc = "ret" /\ clicks # <<>> /\ ~clicks[Len(clicks)]) =>
              clicks = <<FALSE, FALSE>>

\* C19: the frame a mini editor switches into holds all three of the year,
\* month and day inputs; a frame holding only some of them is never selected.
C19_FrameHoldsAllThree ==
    (pc = "iframe" /\ ctx = "frame") => {"year", "month", "day"} \subseteq frame

\* the edit that is returning went through set_date_in_iframe with a date or
\* a time that does not parse
ParseFailed ==
    /\ pc = "ret"
    /\ frame # {}
    /\ ~DateParses(strip(new_date)) \/ ~TimeParses(strip(new_time))

pw_edit_date ==
    IF pw_edit.kind = "Due" THEN strip(assignment_info.due_date)
    ELSE strip(assignment_info.start_date)

\* what perform_date_updates logged for the field of the session in pw_edit
pw_edit_report == IF pw_edit.kind = "Due" THEN pw_due ELSE pw_start

\* C21: a dialog session of the Playwright processor whose date does not
\* parse writes neither the date nor the time, does not click Save, and is
\* reported as failed.
C21_PwParseFailureAborts ==
    (pw_edit.kind # "none" /\ ~DateAvailable(pw_edit_date)) =>
        /\ ~pw_edit.dateFilled
        /\ ~pw_edit.timeFilled
        /\ ~pw_edit.saveClicked
        /\ pw_edit_report = "fail"

(***************************************************************************)
(* Properties of the Save step and of what the caller makes of it.         *)
(***************************************************************************)
\* the edit that is returning wrote the date or the time and found no Save
\* button to click
WrittenNotSaved ==
    /\ pc = "ret"
    /\ result.dateSet \/ result.timeSet
    /\ ~result.saveClicked

\* C22: an edit that wrote the date or the time but clicked no Save button
\* returns normally with saveClicked false, and process_csv_file counts the
\* field as a success: the success flag of the field is set and error_count
\* does not grow.
C22_SuccessWithoutSave ==
    [][WrittenNotSaved =>
          /\ editRet
          /\ error_count' = error_count
          /\ IF kind = "Due"
             THEN due_success' /\ dueOut' = "ok"
             ELSE start_success' /\ startOut' = "ok"]_vars

C22_Witness ==
    /\ WrittenNotSaved
    /\ kind = "Due"
    /\ result.dateSet
    /\ result.timeSet
    /\ editRet

(***************************************************************************)
(* Properties of the row handle.                                           *)
(***************************************************************************)
\* field edits of the current row of perform_date_updates that were run with
\* the row handle find_assignment_row returned for it
RowHandleUses ==
    (IF pw_due \in {"ok", "fail"} THEN 1 ELSE 0)
    + (IF pw_start \in {"ok", "fail"} THEN 1 ELSE 0)

\* C23: the row handle resolved for a record serves at most one field edit;
\* the due edit and the start edit never run on the same handle.
C23_RowHandleOneEdit == pw_resolved => RowHandleUses <= 1

(***************************************************************************)
(* Properties of the normalisation.                                        *)
(***************************************************************************)
\* C24: normalising the result of a normalisation gives it back unchanged.
C24_NormalizeIdempotent == pc = "renormalized" => key = target


\* the texts that differ from s only in which dash stands where s has one
DashVariants(s) ==
    LET at == { i \in 1..Len(s) : s[i] \in DashChars }
    IN  { [i \in 1..Len(s) |-> IF i \in at THEN d[i] ELSE s[i]] :
          d \in [at -> DashChars] }

\* C25: texts that differ only in the dash variant used (hyphen, en dash, em
\* dash, minus sign) are normalised to the same key.
C25_DashEquivalence ==
    pc = "normalized" =>
        \A v \in DashVariants(target) : name_normalized_lower(v) = key

C25_Witness ==
    /\ pc = "normalized"
    /\ target = <<"E", " ", "-", " ", "E">>
    /\ key = <<"e", " ", "e">>
    /\ name_normalized_lower(<<"E", " ", "endash", " ", "E">>) = key

(***************************************************************************)
(* Properties of the time parsers.                                         *)
(***************************************************************************)
\* AM, PM or neither, as the suffix of a time text says
Meridiem(suffix) ==
    IF upper(strip(suffix)) = <<"A", "M">> THEN "AM"
    ELSE IF upper(strip(suffix)) = <<"P", "M">> THEN "PM"
    ELSE "none"

\* the hour h is one the 12-hour clock has
TwelveHour(h) == h \in 1..12

\* the 24-hour value of hour h under a meridiem
Hour24(h, meridiem) ==
    IF meridiem = "PM" THEN (IF h = 12 THEN 12 ELSE h + 12)
    ELSE IF meridiem = "AM" THEN (IF h = 12 THEN 0 ELSE h)
    ELSE h

\* the minute a ":MM" part stands for, 0 when there is none
MinuteOf(m) == IF m = <<>> THEN 0 ELSE DigitsToInt(Tail(m))

\* C26: both time parsers turn a time text into the 24-hour hour and minute:
\* 12 AM is 0, 12 PM is 12, PM adds 12 to 1..11, AM leaves 1..11 alone, a
\* text without minutes has minute 0, a text without AM/PM is taken as
\* 24-hour already.
C26_TimeTo24Hour ==
    pc = "parsed" =>
        \A h \in 0..MaxHour, m \in MinuteParts, x \in Suffixes :
            (/\ time_cell = TimeText(h, m, x)
             /\ Meridiem(x) # "none" => TwelveHour(h)) =>
                /\ ~time_out.raised
                /\ time_out.hour # NoneVal
                /\ time_out.minute # NoneVal
                /\ int(time_out.hour) = Hour24(h, Meridiem(x))
                /\ int(time_out.minute) = MinuteOf(m)

C26_Witness ==
    /\ pc = "parsed"
    /\ time_cell = <<"1", "2", ":", "0", "0", " ", "A", "M">>
    /\ time_out.fn = "iframe"
    /\ time_out.hour = <<"0">>
    /\ time_out.minute = <<"0", "0">>

(***************************************************************************)
(* Properties of exception handling in process_csv_file.                   *)
(***************************************************************************)
\* C27: an exception raised while a record is handled never leaves
\* process_csv_file: it is counted once in error_count, on top of the failed
\* edits of the record, and the loop goes on, so that the call ends only at
\* the end of the file or on a failure of the reader; and whenever the call
\* returns, it returns a pair of counts.
C27_NoExceptionEscapes ==
    /\ rowOut = "exception" =>
          /\ error_count - e0 = 1 + FailedEdits
          /\ processed_count = p0
          /\ pc \in {"loop", "returned", "exited"}
          /\ pc \in {"returned", "exited"} =>
                (rowNum = csvfile.nRows \/ fatal = "read")
    /\ pc = "returned" =>
          /\ Len(ret) = 2
          /\ ret[1] \in Nat
          /\ ret[2] \in Nat
          /\ fatal = "none" => ret = <<processed_count, error_count>>

C27_Witness ==
    /\ pc = "returned"
    /\ fatal = "none"
    /\ rowOut = "exception"
    /\ rowNum = 2
    /\ ret = <<1, 1>>

(***************************************************************************)
(* Properties of cancellation.                                             *)
(***************************************************************************)
\* C28: a request to stop is honoured between records: once it was made, the
\* loop of process_csv_file starts no further record but returns, and a
\* field edit in progress is left to finish.
C28_CancelBetweenRecords ==
    [][/\ (cancel_requested /\ pc = "loop") => pc' = "returned"
       /\ (cancel_requested /\ pc \in {"find", "mini", "iframe"}) =>
             pc' \in {"find", "mini", "iframe", "ret"}]_vars


\* time texts _parse_time_str cannot read: a hour that is no number, a colon
\* with nothing after it, a second colon
BadTimeTexts ==
    { <<"x", " ", "P", "M">>, <<"2", ":">>, <<"1", ":", "2", ":", "3">> }

\* C29: for an empty or unreadable time text _parse_time_str gives
\* (None, None), and set_date_in_dialog fills the hour and minute fields only
\* when neither is None, so that such a text leaves them as they were.
C29_UnparsedTimeNotWritten ==
    (time_out.fn = "playwright" /\ pc \in {"parsed", "filled"}) =>
        /\ (time_cell = <<>> \/ time_cell \in BadTimeTexts) =>
              /\ time_out.hour = NoneVal
              /\ time_out.minute = NoneVal
              /\ ~time_out.filled
        /\ time_out.filled =>
              (time_out.hour # NoneVal /\ time_out.minute # NoneVal)

C29_Witness ==
    /\ pc = "filled"
    /\ time_cell = <<"x", " ", "P", "M">>
    /\ time_out.hour = NoneVal
    /\ ~time_out.filled

(***************************************************************************)
(* Properties of run_automation.                                           *)
(***************************************************************************)
\* C30: called with the action "process", run_automation eventually returns;
\* it is never left holding the browser open.
C30_ProcessTerminates ==
    (invocation.action = "process") ~> (pc = "run_returned")

(***************************************************************************)
(* Properties of the editor dialog across field edits.                     *)
(***************************************************************************)
\* C31: when the date link of a field edit has just been clicked, no editor
\* dialog opened by an earlier field edit is still on the page.
C31_NoDialogLeftOpen == pc = "mini" => ~dialog_open

(***************************************************************************)
(* Properties of the resolution among near-duplicate labels.               *)
(***************************************************************************)
\* the rows of the listing whose normalized label equals the normalized name
EqualRows(name, links) ==
    { i \in 1..Len(links) :
        name_normalized_lower(link_text(links[i])) = name_normalized_lower(name) }

\* C32: when some row's normalized label equals the normalized target, the
\* row resolved is such a row, never one whose normalized label differs.
C32_EqualLabelPreferred ==
    (pc = "resolved" /\ ~resolution.raised /\ EqualRows(target, listing) # {}) =>
        resolution.row \in EqualRows(target, listing)

(***************************************************************************)
(* Properties of the pair returned when the run ends early.                *)
(***************************************************************************)
\* C33: the pair returned by process_csv_file reflects the records handled
\* so far, however the run ended: its first component is the number of
\* records counted as processed and its second is no less than the number of
\* errors counted.
C33_ReturnedPairReflectsWork ==
    pc = "returned" => /\ ret[1] = processed_count
                       /\ ret[2] >= error_count

(***************************************************************************)
(* Properties of the name a resolution is attempted with.                  *)
(***************************************************************************)
\* C34: every resolution is attempted with a non-empty name: when a field
\* edit is about to look its row up, the name it was given is not empty.
C34_ResolvedNameNonEmpty == pc = "find" => target # <<>>

(***************************************************************************)
(* Properties of the range of the time written.                            *)
(***************************************************************************)
\* the parser's hour and minute are handed to the fields: the Selenium
\* script receives whatever was parsed without an exception, the Playwright
\* dialog fills what TimeWritten lets through
HandedToFields ==
    \/ pc = "parsed" /\ time_out.fn = "iframe" /\ ~time_out.raised
    \/ pc = "filled" /\ time_out.filled

\* the text is the decimal form of a number between lo and hi
NumberIn(text, lo, hi) ==
    IsIntLiteral(text) /\ int(text) >= lo /\ int(text) <= hi

\* C35: every hour written to the hour field lies in 0..23 and every minute
\* written to the minute field in 0..59.
C35_WrittenTimeInRange ==
    HandedToFields => /\ NumberIn(time_out.hour, 0, 23)
                      /\ NumberIn(time_out.minute, 0, 59)

(***************************************************************************)
(* Properties of the two time parsers taken together.                      *)
(***************************************************************************)
\* the shapes 'H', 'H:MM', 'H AM|PM' and 'H:MM AM|PM', in either letter case
WellFormedTimes ==
    { TimeText(h, m, x) :
        h \in 0..MaxHour, m \in MinuteParts,
        x \in { <<>>, <<" ", "A", "M">>, <<" ", "P", "M">>, <<" ", "a", "m">>,
                <<" ", "p", "m">>, <<" ", "P", "m">> } }

\* what the parser that did not run makes of the same cell
OtherParser ==
    IF time_out.fn = "iframe" THEN parse_time_str(time_cell)
    ELSE iframe_time(time_cell)

\* the parser produced an hour and a minute that are numbers
Numeric(t) ==
    /\ ~t.raised
    /\ t.hour # NoneVal /\ IsIntLiteral(t.hour)
    /\ t.minute # NoneVal /\ IsIntLiteral(t.minute)

\* C36: on a well-formed time the Selenium parser and the Playwright parser
\* give the same hour and the same minute as numbers.
C36_ParsersAgree ==
    (pc = "parsed" /\ time_cell \in WellFormedTimes) =>
        /\ Numeric(time_out) /\ Numeric(OtherParser)
        /\ int(time_out.hour) = int(OtherParser.hour)
        /\ int(time_out.minute) = int(OtherParser.minute)

\* '12:05 am' parsed by the Selenium code: '0' and '05', where the Playwright
\* code gives '00' and '05'
C36_Witness ==
    /\ pc = "parsed"
    /\ time_cell = <<"1", "2", ":", "0", "5", " ", "a", "m">>
    /\ time_out.fn = "iframe"
    /\ time_out.hour = <<"0">>
    /\ time_out.minute = <<"0", "5">>
    /\ OtherParser.hour = <<"0", "0">>

(***************************************************************************)
(* Properties of the has-date toggles.                                     *)
(***************************************************************************)
\* the has-date toggle of a field kind
OwnToggle(k) == IF k = "Start" THEN "z_o" ELSE "z_k"

\* what an edit of the given kind did to the toggles is allowed: only its own
\* toggle was looked up or acted on, a toggle found checked was not acted on
\* and is still checked
ToggleRespected(t, k) ==
    /\ t.id \in {"none", OwnToggle(k)}
    /\ t.acted \subseteq {OwnToggle(k)}
    /\ t.before => (t.acted = {} /\ t.after)

\* C37: the editor never turns a has-date toggle off: a toggle found checked
\* is left untouched, only an unchecked toggle is activated, and an edit acts
\* on the toggle of its own field kind only (z_o for Start, z_k for Due).
C37_ToggleNeverTurnedOff ==
    /\ (pc = "ret" /\ kind # "none") => ToggleRespected(toggles, kind)
    /\ pw_edit.kind # "none" => ToggleRespected(pw_edit.toggle, pw_edit.kind)

\* a due edit found its toggle checked, left it alone, wrote and saved
C37_Witness ==
    /\ pc = "ret"
    /\ kind = "Due"
    /\ toggles = [id |-> "z_k", before |-> TRUE, after |-> TRUE, acted |-> {}]
    /\ result.dateSet
    /\ result.saveClicked

====
